---- MODULE Spec2Model ----
(***************************************************************************)
(* Model of the intrusive AA tree of tidwall/aatree (src/aat-dev.c).       *)
(*                                                                         *)
(* The heap is a fixed set of caller-owned node records.  Every record has *)
(* the three container fields left, right and level and an immutable key.  *)
(* The tree handle is the single root link.  Each public operation of the  *)
(* library is one action; the recursive helpers are RECURSIVE operators    *)
(* that thread the heap through exactly as the C code mutates it.          *)
(***************************************************************************)
EXTENDS Integers, Sequences, FiniteSets

\* ------------------------------------------------------------------------
\* Bounds
\* ------------------------------------------------------------------------
NKeys == 7          \* distinct keys 1..NKeys, one primary record per key
NDup  == 1          \* extra records whose key equals a primary record's key

Nil == 0            \* the null pointer

Records == 1..(NKeys + NDup)
Ptr     == Records \cup {Nil}

\* the keys records can carry
Keys == 1..NKeys

\* struct aat_node.key: immutable payload of each record
Key(r) == IF r <= NKeys THEN r ELSE ((2 * (r - NKeys) - 1) % NKeys) + 1

VARIABLES
    root,       \* the tree handle: struct aat_node *root
    left,       \* left[r]  : struct aat_node.left
    right,      \* right[r] : struct aat_node.right
    level,      \* level[r] : struct aat_node.level
    op,         \* name of the last public operation called
    arg,        \* its node argument (item / probe), Nil when it has none
    ret,        \* the pointer it returned
    pre,        \* root and container fields as they were before that call
    net,        \* inserts that returned none minus deletes that returned a node
    map         \* abstract map run beside the tree: key -> record, Nil if absent

vars == <<root, left, right, level, op, arg, ret, pre, net, map>>

Heap == [left |-> left, right |-> right, level |-> level]

\* ------------------------------------------------------------------------
\* static helpers of aat-dev.c
\* ------------------------------------------------------------------------
aat_compare(a, b) ==
    IF Key(a) < Key(b) THEN -1 ELSE IF Key(a) > Key(b) THEN 1 ELSE 0

\* aat_clear resetting the links and keeping the level
aat_clear_keeplevel(h, node) ==
    IF node # Nil
    THEN [h EXCEPT !.left[node] = Nil, !.right[node] = Nil]
    ELSE h

aat_clear(h, node) ==
    IF node # Nil
    THEN [h EXCEPT !.left[node] = Nil, !.right[node] = Nil, !.level[node] = 0]
    ELSE h

aat_skew(h, node) ==
    IF node # Nil /\ h.left[node] # Nil /\ h.level[h.left[node]] = h.level[node]
    THEN LET l  == h.left[node]
             h1 == [h  EXCEPT !.left[node] = h.right[l]]
             h2 == [h1 EXCEPT !.right[l] = node]
         IN  [h |-> h2, node |-> l]
    ELSE [h |-> h, node |-> node]

\* aat_split never rotating
aat_split_never(h, node) == [h |-> h, node |-> node]

\* aat_split rotating without promoting the new subtree root
aat_split_nopromote(h, node) ==
    IF /\ node # Nil
       /\ h.right[node] # Nil
       /\ h.right[h.right[node]] # Nil
       /\ h.level[h.right[h.right[node]]] = h.level[node]
    THEN LET r  == h.right[node]
             h1 == [h  EXCEPT !.right[node] = h.left[r]]
             h2 == [h1 EXCEPT !.left[r] = node]
         IN  [h |-> h2, node |-> r]
    ELSE [h |-> h, node |-> node]

aat_split(h, node) ==
    IF /\ node # Nil
       /\ h.right[node] # Nil
       /\ h.right[h.right[node]] # Nil
       /\ h.level[h.right[h.right[node]]] = h.level[node]
    THEN LET r  == h.right[node]
             h1 == [h  EXCEPT !.right[node] = h.left[r]]
             h2 == [h1 EXCEPT !.left[r] = node]
             h3 == [h2 EXCEPT !.level[r] = @ + 1]
         IN  [h |-> h3, node |-> r]
    ELSE [h |-> h, node |-> node]

\* `node->left = r` / `node->right = r` for a helper result r, which carries
\* the heap it left behind, the subtree root it returned and its out-parameter
\* (*replaced for insert, *deleted for the deletes)
link_left(r, node) ==
    [h |-> [r.h EXCEPT !.left[node] = r.node], node |-> node, out |-> r.out]

link_right(r, node) ==
    [h |-> [r.h EXCEPT !.right[node] = r.node], node |-> node, out |-> r.out]

\* a rotation result s (heap and new subtree root) with the out-parameter
with_out(s, o) == [h |-> s.h, node |-> s.node, out |-> o]

\* the replacement in aat_insert0 without `item->left = node->left`
insert_replace_noleft(h, node, item) ==
    LET h2 == [h  EXCEPT !.right[item] = h.right[node]]
        h3 == [h2 EXCEPT !.level[item] = h2.level[node]]
    IN  [h |-> h3, node |-> item, out |-> node]

\* aat_insert0, `*replaced = node; item->... = node->...; node = item`
insert_replace(h, node, item) ==
    LET h1 == [h  EXCEPT !.left[item]  = h.left[node]]
        h2 == [h1 EXCEPT !.right[item] = h1.right[node]]
        h3 == [h2 EXCEPT !.level[item] = h2.level[node]]
    IN  [h |-> h3, node |-> item, out |-> node]

\* aat_insert0, `node = aat_skew(node); node = aat_split(node); return node`
split_of(s) == aat_split(s.h, s.node)

insert_unwind(b) == with_out(split_of(aat_skew(b.h, b.node)), b.out)

\* aat_insert0 with the two descent branches exchanged
RECURSIVE aat_insert0_swapped(_, _, _)
aat_insert0_swapped(h, node, item) ==
    insert_unwind(
        IF node = Nil
        THEN [h |-> [h EXCEPT !.left[item] = Nil, !.right[item] = Nil,
                              !.level[item] = 1],
              node |-> item, out |-> Nil]
        ELSE IF aat_compare(item, node) > 0
        THEN link_left(aat_insert0_swapped(h, h.left[node], item), node)
        ELSE IF aat_compare(item, node) < 0
        THEN link_right(aat_insert0_swapped(h, h.right[node], item), node)
        ELSE insert_replace(h, node, item))

RECURSIVE aat_insert0(_, _, _)
aat_insert0(h, node, item) ==
    insert_unwind(
        IF node = Nil
        THEN [h |-> [h EXCEPT !.left[item] = Nil, !.right[item] = Nil,
                              !.level[item] = 1],
              node |-> item, out |-> Nil]
        ELSE IF aat_compare(item, node) < 0
        THEN link_left(aat_insert0(h, h.left[node], item), node)
        ELSE IF aat_compare(item, node) > 0
        THEN link_right(aat_insert0(h, h.right[node], item), node)
        ELSE insert_replace(h, node, item))

\* aat_decrease_level without the clamp of the right child's level
aat_decrease_level_noclamp(h, node) ==
    IF h.left[node] # Nil \/ h.right[node] # Nil
    THEN LET lvl0 == IF h.left[node] # Nil /\ h.right[node] # Nil
                     THEN IF h.level[h.left[node]] < h.level[h.right[node]]
                          THEN h.level[h.left[node]]
                          ELSE h.level[h.right[node]]
                     ELSE 0
             lvl  == lvl0 + 1
         IN  IF lvl < h.level[node]
             THEN [h EXCEPT !.level[node] = lvl]
             ELSE h
    ELSE h

\* aat_decrease_level without the `level++`
aat_decrease_level_noinc(h, node) ==
    IF h.left[node] # Nil \/ h.right[node] # Nil
    THEN LET lvl == IF h.left[node] # Nil /\ h.right[node] # Nil
                    THEN IF h.level[h.left[node]] < h.level[h.right[node]]
                         THEN h.level[h.left[node]]
                         ELSE h.level[h.right[node]]
                    ELSE 0
         IN  IF lvl < h.level[node]
             THEN LET h1 == [h EXCEPT !.level[node] = lvl]
                  IN  IF h1.right[node] # Nil /\ lvl < h1.level[h1.right[node]]
                      THEN [h1 EXCEPT !.level[h1.right[node]] = lvl]
                      ELSE h1
             ELSE h
    ELSE h

aat_decrease_level(h, node) ==
    IF h.left[node] # Nil \/ h.right[node] # Nil
    THEN LET lvl0 == IF h.left[node] # Nil /\ h.right[node] # Nil
                     THEN IF h.level[h.left[node]] < h.level[h.right[node]]
                          THEN h.level[h.left[node]]
                          ELSE h.level[h.right[node]]
                     ELSE 0
             lvl  == lvl0 + 1
         IN  IF lvl < h.level[node]
             THEN LET h1 == [h EXCEPT !.level[node] = lvl]
                  IN  IF h1.right[node] # Nil /\ lvl < h1.level[h1.right[node]]
                      THEN [h1 EXCEPT !.level[h1.right[node]] = lvl]
                      ELSE h1
             ELSE h
    ELSE h

\* `n->right = t` for a rotation result t
set_right(t, n) == [t.h EXCEPT !.right[n] = t.node]

\* aat_delete_fixup, `node->right = aat_skew(node->right)`
skew_right(s) ==
    [h |-> set_right(aat_skew(s.h, s.h.right[s.node]), s.node), node |-> s.node]

\* aat_delete_fixup, `if (node->right && node->right->right)
\*                       node->right->right = aat_skew(node->right->right)`
skew_right_right(s) ==
    IF s.h.right[s.node] # Nil /\ s.h.right[s.h.right[s.node]] # Nil
    THEN [h |-> set_right(aat_skew(s.h, s.h.right[s.h.right[s.node]]),
                          s.h.right[s.node]),
          node |-> s.node]
    ELSE s

\* aat_delete_fixup, `node->right = aat_split(node->right)`
split_right(s) ==
    [h |-> set_right(aat_split(s.h, s.h.right[s.node]), s.node), node |-> s.node]

aat_delete_fixup(h, node) ==
    split_right(
      split_of(
        skew_right_right(
          skew_right(
            aat_skew(aat_decrease_level(h, node), node)))))

\* `node = aat_delete_fixup(node)` on a helper result b
fixup_of(b) == with_out(aat_delete_fixup(b.h, b.node), b.out)

\* aat_delete_first0 splicing the minimum out together with its right child
RECURSIVE aat_delete_first0_dropright(_, _)
aat_delete_first0_dropright(h, node) ==
    IF node # Nil
    THEN IF h.left[node] = Nil
         THEN [h |-> h, node |-> Nil, out |-> node]
         ELSE fixup_of(link_left(aat_delete_first0_dropright(h, h.left[node]), node))
    ELSE [h |-> h, node |-> Nil, out |-> Nil]

RECURSIVE aat_delete_first0(_, _)
aat_delete_first0(h, node) ==
    IF node # Nil
    THEN IF h.left[node] = Nil
         THEN [h |-> h, node |-> h.right[node], out |-> node]
         ELSE fixup_of(link_left(aat_delete_first0(h, h.left[node]), node))
    ELSE [h |-> h, node |-> Nil, out |-> Nil]

\* aat_delete_last0 left as an unedited copy of aat_delete_first0
aat_delete_last0_as_first(h, node) == aat_delete_first0(h, node)

RECURSIVE aat_delete_last0(_, _)
aat_delete_last0(h, node) ==
    IF node # Nil
    THEN IF h.right[node] = Nil
         THEN [h |-> h, node |-> h.left[node], out |-> node]
         ELSE fixup_of(link_right(aat_delete_last0(h, h.right[node]), node))
    ELSE [h |-> h, node |-> Nil, out |-> Nil]

\* the replacement step leaving the matched node in place and reporting the
\* extracted neighbour as the deleted node
delete0_keep(r, node) == r

\* the replacement step without `leaf_deleted->right = node->right`
delete0_replace_noright(r, node) ==
    LET h1 == [r.h EXCEPT !.left[r.out]  = r.h.left[node]]
        h3 == [h1  EXCEPT !.level[r.out] = h1.level[node]]
    IN  [h |-> h3, node |-> r.out, out |-> node]

\* aat_delete0, `leaf_deleted->left = node->left; ...; node = leaf_deleted`
\* where r is the extraction already linked into node and r.out is leaf_deleted
delete0_replace(r, node) ==
    LET h1 == [r.h EXCEPT !.left[r.out]  = r.h.left[node]]
        h2 == [h1  EXCEPT !.right[r.out] = h1.right[node]]
        h3 == [h2  EXCEPT !.level[r.out] = h2.level[node]]
    IN  [h |-> h3, node |-> r.out, out |-> node]

\* aat_delete0, `if (node) node = aat_delete_fixup(node)`
fixup_if_node(b) == IF b.node # Nil THEN fixup_of(b) ELSE b

\* aat_delete0 recording the probe, not the matching node, as deleted when
\* the match is a leaf
RECURSIVE aat_delete0_outkey(_, _, _)
aat_delete0_outkey(h, node, key) ==
    IF node # Nil
    THEN fixup_if_node(
           IF aat_compare(key, node) < 0
           THEN link_left(aat_delete0_outkey(h, h.left[node], key), node)
           ELSE IF aat_compare(key, node) > 0
           THEN link_right(aat_delete0_outkey(h, h.right[node], key), node)
           ELSE IF h.left[node] = Nil /\ h.right[node] = Nil
           THEN [h |-> h, node |-> Nil, out |-> key]
           ELSE IF h.left[node] = Nil
           THEN delete0_replace(
                    link_right(aat_delete_first0(h, h.right[node]), node), node)
           ELSE delete0_replace(
                    link_left(aat_delete_last0(h, h.left[node]), node), node))
    ELSE [h |-> h, node |-> Nil, out |-> Nil]

RECURSIVE aat_delete0(_, _, _)
aat_delete0(h, node, key) ==
    IF node # Nil
    THEN fixup_if_node(
           IF aat_compare(key, node) < 0
           THEN link_left(aat_delete0(h, h.left[node], key), node)
           ELSE IF aat_compare(key, node) > 0
           THEN link_right(aat_delete0(h, h.right[node], key), node)
           ELSE IF h.left[node] = Nil /\ h.right[node] = Nil
           THEN [h |-> h, node |-> Nil, out |-> node]
           ELSE IF h.left[node] = Nil
           THEN delete0_replace(
                    link_right(aat_delete_first0(h, h.right[node]), node), node)
           ELSE delete0_replace(
                    link_left(aat_delete_last0(h, h.left[node]), node), node))
    ELSE [h |-> h, node |-> Nil, out |-> Nil]

\* ------------------------------------------------------------------------
\* read-only operations (the while loops are unrolled as recursion)
\* ------------------------------------------------------------------------
\* the search loop descending left on both unequal outcomes
RECURSIVE search_loop_leftonly(_, _, _, _)
search_loop_leftonly(h, node, key, found) ==
    IF node # Nil
    THEN LET cmp == aat_compare(key, node) IN
         IF cmp < 0 THEN search_loop_leftonly(h, h.left[node], key, found)
         ELSE IF cmp > 0 THEN search_loop_leftonly(h, h.left[node], key, found)
         ELSE search_loop_leftonly(h, Nil, key, node)
    ELSE found

RECURSIVE search_loop(_, _, _, _)
search_loop(h, node, key, found) ==
    IF node # Nil
    THEN LET cmp == aat_compare(key, node) IN
         IF cmp < 0 THEN search_loop(h, h.left[node], key, found)
         ELSE IF cmp > 0 THEN search_loop(h, h.right[node], key, found)
         ELSE search_loop(h, Nil, key, node)
    ELSE found

aat_search(h, rt, key) == search_loop(h, rt, key, Nil)

RECURSIVE leftmost(_, _)
leftmost(h, node) ==
    IF h.left[node] # Nil THEN leftmost(h, h.left[node]) ELSE node

RECURSIVE rightmost(_, _)
rightmost(h, node) ==
    IF h.right[node] # Nil THEN rightmost(h, h.right[node]) ELSE node

\* aat_first without the walk to the left
aat_first_nowalk(h, rt) == rt

aat_first(h, rt) == IF rt # Nil THEN leftmost(h, rt) ELSE rt

aat_last(h, rt) == IF rt # Nil THEN rightmost(h, rt) ELSE rt

\* the iter loop not recording the candidate when it descends left
RECURSIVE iter_loop_nocandidate(_, _, _, _)
iter_loop_nocandidate(h, node, key, found) ==
    IF node # Nil
    THEN LET cmp == aat_compare(key, node) IN
         IF cmp < 0 THEN iter_loop_nocandidate(h, h.left[node], key, found)
         ELSE IF cmp > 0 THEN iter_loop_nocandidate(h, h.right[node], key, found)
         ELSE iter_loop_nocandidate(h, Nil, key, node)
    ELSE found

RECURSIVE iter_loop(_, _, _, _)
iter_loop(h, node, key, found) ==
    IF node # Nil
    THEN LET cmp == aat_compare(key, node) IN
         IF cmp < 0 THEN iter_loop(h, h.left[node], key, node)
         ELSE IF cmp > 0 THEN iter_loop(h, h.right[node], key, found)
         ELSE iter_loop(h, Nil, key, node)
    ELSE found

aat_iter(h, rt, key) == iter_loop(h, rt, key, Nil)

RECURSIVE parent_loop(_, _, _, _)
parent_loop(h, node, item, parent) ==
    IF node # Nil
    THEN LET cmp == aat_compare(item, node) IN
         IF cmp < 0 THEN parent_loop(h, h.left[node], item, node)
         ELSE IF cmp > 0 THEN parent_loop(h, h.right[node], item, node)
         ELSE parent_loop(h, Nil, item, parent)
    ELSE parent

aat_parent(h, rt, item) == parent_loop(h, rt, item, Nil)

RECURSIVE next_up(_, _, _, _)
next_up(h, rt, node, parent) ==
    IF parent # Nil /\ h.left[parent] # node
    THEN next_up(h, rt, parent, aat_parent(h, rt, parent))
    ELSE parent

\* aat_next stepping to the right child without descending to its leftmost
aat_next_nodescent(h, rt, node) ==
    IF node # Nil
    THEN IF h.right[node] # Nil
         THEN h.right[node]
         ELSE next_up(h, rt, node, aat_parent(h, rt, node))
    ELSE node

aat_next(h, rt, node) ==
    IF node # Nil
    THEN IF h.right[node] # Nil
         THEN leftmost(h, h.right[node])
         ELSE next_up(h, rt, node, aat_parent(h, rt, node))
    ELSE node

RECURSIVE prev_up(_, _, _, _)
prev_up(h, rt, node, parent) ==
    IF parent # Nil /\ h.right[parent] # node
    THEN prev_up(h, rt, parent, aat_parent(h, rt, parent))
    ELSE parent

\* aat_prev left with aat_next's ascent loop (testing parent->left)
aat_prev_ascent_as_next(h, rt, node) ==
    IF node # Nil
    THEN IF h.left[node] # Nil
         THEN rightmost(h, h.left[node])
         ELSE next_up(h, rt, node, aat_parent(h, rt, node))
    ELSE node

aat_prev(h, rt, node) ==
    IF node # Nil
    THEN IF h.left[node] # Nil
         THEN rightmost(h, h.left[node])
         ELSE prev_up(h, rt, node, aat_parent(h, rt, node))
    ELSE node

\* ------------------------------------------------------------------------
\* public operations, one action each
\* ------------------------------------------------------------------------
Snapshot == [root |-> root, left |-> left, right |-> right, level |-> level]

Install(rt, h) ==
    /\ root'  = rt
    /\ left'  = h.left
    /\ right' = h.right
    /\ level' = h.level

\* aat_insert clearing the replaced node without the `replaced != item` test
Insert_alwaysclear(item) ==
    LET r  == aat_insert0(Heap, root, item)
        h1 == aat_clear(r.h, r.out)
    IN  /\ Install(r.node, h1)
        /\ op'  = "insert"
        /\ arg' = item
        /\ ret' = r.out
        /\ pre' = Snapshot
        /\ net' = IF r.out = Nil THEN net + 1 ELSE net
        /\ map' = [map EXCEPT ![Key(item)] = item]

\* a read-only operation that detaches the node it returns
Read_clearing(name, a, result) ==
    /\ op'  = name
    /\ arg' = a
    /\ ret' = result
    /\ pre' = Snapshot
    /\ Install(root, aat_clear(Heap, result))
    /\ UNCHANGED <<net, map>>

\* aat_insert never clearing the replaced node
Insert_noclear(item) ==
    LET r  == aat_insert0(Heap, root, item)
    IN  /\ Install(r.node, r.h)
        /\ op'  = "insert"
        /\ arg' = item
        /\ ret' = r.out
        /\ pre' = Snapshot
        /\ net' = IF r.out = Nil THEN net + 1 ELSE net
        /\ map' = [map EXCEPT ![Key(item)] = item]

Insert(item) ==
    LET r  == aat_insert0(Heap, root, item)
        h1 == IF r.out # item THEN aat_clear(r.h, r.out) ELSE r.h
    IN  /\ Install(r.node, h1)
        /\ op'  = "insert"
        /\ arg' = item
        /\ ret' = r.out
        /\ pre' = Snapshot
        /\ net' = IF r.out = Nil THEN net + 1 ELSE net
        /\ map' = [map EXCEPT ![Key(item)] = item]

Delete(key) ==
    LET r  == aat_delete0(Heap, root, key)
        h1 == aat_clear(r.h, r.out)
    IN  /\ Install(r.node, h1)
        /\ op'  = "delete"
        /\ arg' = key
        /\ ret' = r.out
        /\ pre' = Snapshot
        /\ net' = IF r.out # Nil THEN net - 1 ELSE net
        /\ map' = IF r.out # Nil THEN [map EXCEPT ![Key(r.out)] = Nil] ELSE map

DeleteFirst ==
    LET r  == aat_delete_first0(Heap, root)
        h1 == aat_clear(r.h, r.out)
    IN  /\ Install(r.node, h1)
        /\ op'  = "delete_first"
        /\ arg' = Nil
        /\ ret' = r.out
        /\ pre' = Snapshot
        /\ net' = IF r.out # Nil THEN net - 1 ELSE net
        /\ map' = IF r.out # Nil THEN [map EXCEPT ![Key(r.out)] = Nil] ELSE map

DeleteLast ==
    LET r  == aat_delete_last0(Heap, root)
        h1 == aat_clear(r.h, r.out)
    IN  /\ Install(r.node, h1)
        /\ op'  = "delete_last"
        /\ arg' = Nil
        /\ ret' = r.out
        /\ pre' = Snapshot
        /\ net' = IF r.out # Nil THEN net - 1 ELSE net
        /\ map' = IF r.out # Nil THEN [map EXCEPT ![Key(r.out)] = Nil] ELSE map

Read(name, a, result) ==
    /\ op'  = name
    /\ arg' = a
    /\ ret' = result
    /\ pre' = Snapshot
    /\ UNCHANGED <<root, left, right, level, net, map>>

Search(key) == Read("search", key, aat_search(Heap, root, key))

First == Read("first", Nil, aat_first(Heap, root))

Last == Read("last", Nil, aat_last(Heap, root))

Iter(key) == Read("iter", key, aat_iter(Heap, root, key))

NextOp(node) == Read("next", node, aat_next(Heap, root, node))

PrevOp(node) == Read("prev", node, aat_prev(Heap, root, node))

Init ==
    /\ root  = Nil
    /\ left  = [r \in Records |-> Nil]
    /\ right = [r \in Records |-> Nil]
    /\ level = [r \in Records |-> 0]
    /\ op    = "init"
    /\ arg   = Nil
    /\ ret   = Nil
    /\ pre   = [root |-> Nil,
                left  |-> [r \in Records |-> Nil],
                right |-> [r \in Records |-> Nil],
                level |-> [r \in Records |-> 0]]
    /\ net   = 0
    /\ map   = [k \in Keys |-> Nil]

Next ==
    \/ \E item \in Records : Insert(item)
    \/ \E key \in Records : Delete(key)
    \/ DeleteFirst
    \/ DeleteLast
    \/ \E key \in Records : Search(key)
    \/ First
    \/ Last
    \/ \E key \in Records : Iter(key)
    \/ \E node \in Records : NextOp(node)
    \/ \E node \in Records : PrevOp(node)

Spec == Init /\ [][Next]_vars

\* ------------------------------------------------------------------------
\* the tree-validation walk of the test driver (aat_valid / aat_valid0)
\* ------------------------------------------------------------------------
MaxNodes == NKeys + NDup

PreHeap == [left |-> pre.left, right |-> pre.right, level |-> pre.level]

RECURSIVE ReachFrom(_, _)
ReachFrom(h, seen) ==
    LET nxt == (seen \cup {h.left[n] : n \in seen} \cup {h.right[n] : n \in seen})
               \ {Nil}
    IN  IF nxt = seen THEN seen ELSE ReachFrom(h, nxt)

\* the nodes the walk visits: everything reachable from the root link
Reach(h, rt) == IF rt = Nil THEN {} ELSE ReachFrom(h, {rt})

\* the order in which the walk visits them (left subtree, node, right subtree)
RECURSIVE InOrderF(_, _, _)
InOrderF(h, T, fuel) ==
    IF T = Nil \/ fuel = 0
    THEN <<>>
    ELSE InOrderF(h, h.left[T], fuel - 1) \o <<T>> \o InOrderF(h, h.right[T], fuel - 1)

InOrder(h, rt) == InOrderF(h, rt, MaxNodes + 1)

\* assertions 1) to 5) of aat_valid0 at one node T
LevelsOkAt(h, T) ==
    /\ (h.right[T] = Nil /\ h.left[T] = Nil) => h.level[T] = 1
    /\ h.left[T] # Nil => h.level[h.left[T]] = h.level[T] - 1
    /\ h.right[T] # Nil =>
          \/ h.level[h.right[T]] = h.level[T]
          \/ h.level[h.right[T]] = h.level[T] - 1
    /\ (h.right[T] # Nil /\ h.right[h.right[T]] # Nil) =>
          h.level[h.right[h.right[T]]] < h.level[T]
    /\ h.level[T] > 1 => (h.left[T] # Nil /\ h.right[T] # Nil)

aat_valid(h, rt) ==
    rt # Nil => (h.level[rt] > 0 /\ \A T \in Reach(h, rt) : LevelsOkAt(h, T))

\* assertion 6) of aat_valid0: keys strictly increase along the walk
Increasing(s) == \A i \in 1..(Len(s) - 1) : Key(s[i]) < Key(s[i + 1])

Zeroed(h, n) == h.left[n] = Nil /\ h.right[n] = Nil /\ h.level[n] = 0

Range(s) == {s[i] : i \in 1..Len(s)}

\* in-tree nodes of a tree whose key equals the key of record p
Matching(h, rt, p) == {n \in Reach(h, rt) : Key(n) = Key(p)}

\* ------------------------------------------------------------------------
\* Properties
\* ------------------------------------------------------------------------

\* C1: after every call of insert, delete, delete_first and delete_last,
\* every in-tree node satisfies the five AA level invariants.
C1_LevelInvariants == aat_valid(Heap, root)

\* a delete below a level-3 root lowered the root's level: the fixup ran on
\* more than one level
C1_Witness ==
    /\ op = "delete" /\ ret # Nil
    /\ pre.root # Nil /\ pre.level[pre.root] = 3
    /\ root # Nil /\ level[root] = 2

\* C2: the in-order traversal visits every in-tree node once, with strictly
\* increasing keys, so no two in-tree nodes have equal keys.
C2_StrictlyIncreasing ==
    LET s == InOrder(Heap, root)
    IN  /\ Increasing(s)
        /\ Range(s) = Reach(Heap, root)
        /\ \A a, b \in Reach(Heap, root) : Key(a) = Key(b) => a = b

\* a node with two children was deleted and replaced by its in-order neighbour
C2_Witness ==
    /\ op = "delete" /\ ret # Nil
    /\ pre.left[ret] # Nil /\ pre.right[ret] # Nil
    /\ Len(InOrder(Heap, root)) >= 4

\* C3: delete with a probe whose key equals in-tree node M returns M itself,
\* cleared; afterwards search and a second delete with that key return none.
C3_DeleteReturnsMatch ==
    (op = "delete" /\ Matching(PreHeap, pre.root, arg) # {}) =>
        /\ ret \in Matching(PreHeap, pre.root, arg)
        /\ Zeroed(Heap, ret)
        /\ ret \notin Reach(Heap, root)
        /\ aat_search(Heap, root, arg) = Nil
        /\ aat_delete0(Heap, root, arg).out = Nil

\* the probe is a different record from the inner node it removes
C3_Witness ==
    /\ op = "delete" /\ ret # Nil /\ ret # arg
    /\ pre.left[ret] # Nil
    /\ Key(ret) = Key(arg)

\* C4: a replacing insert returns old cleared, gives item old's fields and
\* old's place, and changes nothing else.
C4_ReplaceFrame ==
    (op = "insert" /\ arg \notin Reach(PreHeap, pre.root)
                   /\ Matching(PreHeap, pre.root, arg) # {}) =>
        LET old == CHOOSE n \in Matching(PreHeap, pre.root, arg) : TRUE
            Sub(x) == IF x = old THEN arg ELSE x
        IN  /\ ret = old
            /\ old # arg
            /\ Zeroed(Heap, old)
            /\ left[arg]  = pre.left[old]
            /\ right[arg] = pre.right[old]
            /\ level[arg] = pre.level[old]
            /\ root = Sub(pre.root)
            /\ \A n \in Reach(PreHeap, pre.root) \ {old} :
                  /\ left[n]  = Sub(pre.left[n])
                  /\ right[n] = Sub(pre.right[n])
                  /\ level[n] = pre.level[n]
            /\ Reach(Heap, root) = (Reach(PreHeap, pre.root) \ {old}) \cup {arg}
            /\ Cardinality(Reach(Heap, root)) = Cardinality(Reach(PreHeap, pre.root))

\* the replaced node was an inner node below the root
C4_Witness ==
    /\ op = "insert" /\ ret # Nil /\ ret # arg
    /\ left[arg] # Nil /\ right[arg] # Nil
    /\ root # arg

\* C5: right after insert(tree, item) of a detached item, a search with any
\* probe of equal key returns item itself.
C5_InsertThenSearch ==
    (op = "insert" /\ arg \notin Reach(PreHeap, pre.root)) =>
        \A p \in Records : Key(p) = Key(arg) => aat_search(Heap, root, p) = arg

\* a replacing insert, searched with the replaced record as probe
C5_Witness ==
    /\ op = "insert" /\ ret # Nil /\ ret # arg
    /\ aat_search(Heap, root, ret) = arg
    /\ root # arg

\* C6: the number of in-tree nodes is the number of inserts that returned
\* none minus the number of deletes that returned a node; when that is zero
\* the root is none.
C6_SizeIsNet ==
    /\ Cardinality(Reach(Heap, root)) = net
    /\ net = 0 => root = Nil

\* the last node of a tree was removed again
C6_Witness ==
    /\ op \in {"delete", "delete_first", "delete_last"}
    /\ ret # Nil /\ net = 0 /\ root = Nil

\* C7: first returns the in-tree node with the smallest key, last the one
\* with the largest key; on the empty tree both return none.
C7_FirstLast ==
    LET s == InOrder(Heap, root)
        R == Reach(Heap, root)
    IN  /\ op = "first" =>
            IF root = Nil THEN ret = Nil
            ELSE ret = s[1] /\ ret \in R /\ \A n \in R : Key(ret) <= Key(n)
        /\ op = "last" =>
            IF root = Nil THEN ret = Nil
            ELSE ret = s[Len(s)] /\ ret \in R /\ \A n \in R : Key(ret) >= Key(n)

\* first on a tree of height three, the minimum is not the root
C7_Witness ==
    /\ op = "first" /\ ret # Nil /\ ret # root
    /\ level[root] = 3

\* C8: delete_first removes and returns the minimum, delete_last the
\* maximum, cleared; on an empty tree each returns none.  The remaining
\* in-order sequence is the old one without its first (last) element.
C8_DeleteEnds ==
    LET s0 == InOrder(PreHeap, pre.root)
        s1 == InOrder(Heap, root)
    IN  /\ op = "delete_first" =>
            IF pre.root = Nil THEN ret = Nil /\ root = Nil
            ELSE /\ ret = aat_first(PreHeap, pre.root)
                 /\ ret = s0[1]
                 /\ \A n \in Reach(PreHeap, pre.root) : Key(ret) <= Key(n)
                 /\ Zeroed(Heap, ret)
                 /\ s1 = Tail(s0)
        /\ op = "delete_last" =>
            IF pre.root = Nil THEN ret = Nil /\ root = Nil
            ELSE /\ ret = aat_last(PreHeap, pre.root)
                 /\ ret = s0[Len(s0)]
                 /\ \A n \in Reach(PreHeap, pre.root) : Key(ret) >= Key(n)
                 /\ Zeroed(Heap, ret)
                 /\ s1 = SubSeq(s0, 1, Len(s0) - 1)

\* delete_first spliced out a minimum that had a right child
C8_Witness ==
    /\ op = "delete_first" /\ ret # Nil
    /\ pre.right[ret] # Nil
    /\ root # Nil

\* C9: iter returns the in-tree node with the smallest key >= the probe's
\* key, and none exactly when every in-tree key is smaller.
C9_IterLowerBound ==
    op = "iter" =>
        LET cand == {n \in Reach(Heap, root) : Key(n) >= Key(arg)}
        IN  IF cand = {} THEN ret = Nil
            ELSE ret \in cand /\ \A n \in cand : Key(ret) <= Key(n)

\* the probe's key is absent and the answer lies strictly above it
C9_Witness ==
    /\ op = "iter" /\ ret # Nil
    /\ Key(ret) > Key(arg)
    /\ ret # root
    /\ \E n \in Reach(Heap, root) : Key(n) < Key(arg)

RECURSIVE NextWalk(_, _, _, _)
NextWalk(h, rt, node, fuel) ==
    IF node = Nil \/ fuel = 0
    THEN <<>>
    ELSE <<node>> \o NextWalk(h, rt, aat_next(h, rt, node), fuel - 1)

\* the elements of s whose key is at least k, in the order of s
RECURSIVE FromKey(_, _)
FromKey(s, k) ==
    IF s = <<>> THEN <<>>
    ELSE IF Key(Head(s)) >= k THEN s ELSE FromKey(Tail(s), k)

\* C10: next of an in-tree node is its in-order successor (none at the
\* maximum); repeated next from first or from iter(p) visits the remaining
\* nodes once each in ascending order and then returns none.
C10_NextSuccessor ==
    LET s == InOrder(Heap, root)
    IN  /\ (op = "next" /\ arg \in Reach(Heap, root)) =>
            LET above == {n \in Reach(Heap, root) : Key(n) > Key(arg)}
            IN  IF above = {} THEN ret = Nil
                ELSE ret \in above /\ \A n \in above : Key(ret) <= Key(n)
        /\ NextWalk(Heap, root, aat_first(Heap, root), MaxNodes + 1) = s
        /\ \A p \in Records :
              NextWalk(Heap, root, aat_iter(Heap, root, p), MaxNodes + 1)
                 = FromKey(s, Key(p))

\* next climbed more than one level: the successor is the root and the
\* argument is not its left child
C10_Witness ==
    /\ op = "next" /\ arg \in Reach(Heap, root)
    /\ ret = root /\ ret # Nil
    /\ left[ret] # arg
    /\ right[arg] = Nil

RECURSIVE PrevWalk(_, _, _, _)
PrevWalk(h, rt, node, fuel) ==
    IF node = Nil \/ fuel = 0
    THEN <<>>
    ELSE <<node>> \o PrevWalk(h, rt, aat_prev(h, rt, node), fuel - 1)

Reverse(s) == [i \in 1..Len(s) |-> s[Len(s) + 1 - i]]

\* C11: prev of an in-tree node is its in-order predecessor (none at the
\* minimum); repeated prev from last visits every in-tree node once in
\* strictly descending key order and then returns none.
C11_PrevPredecessor ==
    /\ (op = "prev" /\ arg \in Reach(Heap, root)) =>
          LET below == {n \in Reach(Heap, root) : Key(n) < Key(arg)}
          IN  IF below = {} THEN ret = Nil
              ELSE ret \in below /\ \A n \in below : Key(ret) >= Key(n)
    /\ PrevWalk(Heap, root, aat_last(Heap, root), MaxNodes + 1)
          = Reverse(InOrder(Heap, root))

\* prev climbed to the root from a node that is not the root's right child
C11_Witness ==
    /\ op = "prev" /\ arg \in Reach(Heap, root)
    /\ ret = root /\ ret # Nil
    /\ right[ret] # arg
    /\ left[arg] = Nil

\* the last call was an insert of a detached item whose key was not in the tree
FreshInsert ==
    /\ op = "insert"
    /\ arg \notin Reach(PreHeap, pre.root)
    /\ Matching(PreHeap, pre.root, arg) = {}

\* aat_delete applied to the current tree: root, fields and returned node
DeleteNow(p) ==
    [root  |-> aat_delete0(Heap, root, p).node,
     h     |-> aat_clear(aat_delete0(Heap, root, p).h, aat_delete0(Heap, root, p).out),
     ret   |-> aat_delete0(Heap, root, p).out]

\* C12 as stated: insert of a detached item with a new key followed by delete
\* with a probe of that key returns item and leaves the root link and the
\* left, right and level of every in-tree node as they were before the insert.
C12_InsertDeleteRestores ==
    FreshInsert =>
        \A p \in Records : Key(p) = Key(arg) =>
            /\ DeleteNow(p).ret = arg
            /\ DeleteNow(p).root = pre.root
            /\ \A n \in Reach(PreHeap, pre.root) :
                  /\ DeleteNow(p).h.left[n]  = pre.left[n]
                  /\ DeleteNow(p).h.right[n] = pre.right[n]
                  /\ DeleteNow(p).h.level[n] = pre.level[n]

\* C12 as amended: insert of a detached item with a new key followed by delete
\* with a probe of that key returns item itself, cleared, and leaves a valid
\* tree holding the same records in the same in-order sequence as before the
\* insert (the root link and the nodes' left, right and level may differ).
C12_InsertDeleteSameSequence ==
    FreshInsert =>
        \A p \in Records : Key(p) = Key(arg) =>
            /\ DeleteNow(p).ret = arg
            /\ Zeroed(DeleteNow(p).h, arg)
            /\ InOrder(DeleteNow(p).h, DeleteNow(p).root) = InOrder(PreHeap, pre.root)
            /\ aat_valid(DeleteNow(p).h, DeleteNow(p).root)

\* the insert was followed by a delete that hands back the same records under
\* a different root
C12_Witness ==
    /\ FreshInsert
    /\ DeleteNow(arg).ret = arg
    /\ DeleteNow(arg).root # pre.root
    /\ pre.root # Nil
    /\ InOrder(DeleteNow(arg).h, DeleteNow(arg).root) = InOrder(PreHeap, pre.root)

\* number of nodes on the longest path from T down to a leaf
RECURSIVE HeightF(_, _, _)
HeightF(h, T, fuel) ==
    IF T = Nil \/ fuel = 0
    THEN 0
    ELSE LET l == HeightF(h, h.left[T], fuel - 1)
             r == HeightF(h, h.right[T], fuel - 1)
         IN  1 + (IF l > r THEN l ELSE r)

Height(h, rt) == HeightF(h, rt, MaxNodes + 1)

RECURSIVE Pow2(_)
Pow2(k) == IF k = 0 THEN 1 ELSE 2 * Pow2(k - 1)

\* the least k with 2^k >= m, for m >= 1
RECURSIVE CeilLog2From(_, _)
CeilLog2From(m, k) == IF Pow2(k) >= m THEN k ELSE CeilLog2From(m, k + 1)

CeilLog2(m) == CeilLog2From(m, 0)

\* C13: the height of the tree is at most 2 * ceil(log2(n + 1)), n being the
\* number of in-tree nodes.
C13_HeightBound ==
    Height(Heap, root) <= 2 * CeilLog2(Cardinality(Reach(Heap, root)) + 1)

\* a delete left a tree that is twice as high as its root's level
C13_Witness ==
    /\ op \in {"delete", "delete_first", "delete_last"} /\ ret # Nil
    /\ root # Nil /\ level[root] = 2
    /\ Height(Heap, root) = 4

\* C14: insert of a record that is already in the tree returns that record,
\* does not clear it, and leaves the root and every node's fields unchanged.
C14_ReinsertIsNoop ==
    (op = "insert" /\ arg \in Reach(PreHeap, pre.root)) =>
        /\ ret = arg
        /\ arg \in Reach(Heap, root)
        /\ Snapshot = pre

\* the re-inserted record is an inner node with both children, below the root
C14_Witness ==
    /\ op = "insert" /\ arg \in Reach(PreHeap, pre.root)
    /\ ret = arg
    /\ left[arg] # Nil /\ right[arg] # Nil
    /\ root # arg

ReadOps == {"search", "first", "last", "iter", "next", "prev"}

\* C15: search, first, last, iter, next and prev leave the root link and the
\* left, right and level of every record as they were before the call.
C15_ReadsArePure ==
    op \in ReadOps => Snapshot = pre

\* a read on a non-trivial tree that returned an inner node
C15_Witness ==
    /\ op \in ReadOps
    /\ ret # Nil /\ ret # root /\ left[ret] # Nil
    /\ arg # Nil /\ arg # ret

\* heap h with the container fields of record q overwritten by g
WithFields(h, q, g) ==
    [h EXCEPT !.left[q] = g.left, !.right[q] = g.right, !.level[q] = g.level]

\* container-field values a caller may have left in a probe record q
ProbeFields(q) ==
    { [left |-> root, right |-> q,    level |-> 1],
      [left |-> q,    right |-> root, level |-> 3] }

\* what aat_delete leaves, given the result d of aat_delete0: returned node,
\* new root and the fields after aat_clear
DeleteDone(d) ==
    [ret |-> d.out, root |-> d.node, h |-> aat_clear(d.h, d.out)]

\* aat_delete of probe p on heap h
DeleteOn(h, p) == DeleteDone(aat_delete0(h, root, p))

\* C16: search, delete and iter depend only on the probe's key.  Two probes
\* of equal key give the same result and the same tree; a probe that is not
\* in the tree may carry any left, right and level without changing the
\* outcome, and keeps them.
C16_ProbeKeyOnly ==
    /\ \A p, q \in Records : (p < q /\ Key(p) = Key(q)) =>
          /\ aat_search(Heap, root, p) = aat_search(Heap, root, q)
          /\ aat_iter(Heap, root, p) = aat_iter(Heap, root, q)
          /\ DeleteOn(Heap, p) = DeleteOn(Heap, q)
    /\ \A q \in Records \ Reach(Heap, root) : \A g \in ProbeFields(q) :
          /\ aat_search(WithFields(Heap, q, g), root, q) = aat_search(Heap, root, q)
          /\ aat_iter(WithFields(Heap, q, g), root, q) = aat_iter(Heap, root, q)
          /\ DeleteOn(WithFields(Heap, q, g), q)
                = [DeleteOn(Heap, q) EXCEPT !.h = WithFields(@, q, g)]
    /\ (op \in {"search", "delete", "iter"} /\ arg \notin Reach(PreHeap, pre.root)) =>
          /\ left[arg]  = pre.left[arg]
          /\ right[arg] = pre.right[arg]
          /\ level[arg] = pre.level[arg]

\* a delete through a detached probe whose key matches an inner node, while
\* the in-tree record of that key would have been the other possible probe
C16_Witness ==
    /\ op = "delete" /\ ret # Nil /\ ret # arg
    /\ Key(ret) = Key(arg)
    /\ pre.left[ret] # Nil /\ pre.right[ret] # Nil
    /\ pre.level[ret] # level[arg]

\* C17 as stated: after insert of a detached item of a key not in the tree,
\* insert returned none and the item has level 1 and null left and right.
\* The skews and splits of the unwind can give the item a right child or
\* promote it to level 2 over two children, so this does not hold.
C17_FreshItemIsBareLeaf ==
    FreshInsert =>
        /\ ret = Nil
        /\ level[arg] = 1
        /\ left[arg] = Nil
        /\ right[arg] = Nil

\* C17 (amended): after insert of a detached item of a key not in the tree,
\* insert returned none and the item is in the tree, in key order among the
\* nodes that were there.  It was linked in as a level-1 leaf, and the
\* unwind leaves it either at level 1 with no left child or at a higher
\* level over two children.
C17_FreshItemPlaced ==
    FreshInsert =>
        /\ ret = Nil
        /\ arg \in Reach(Heap, root)
        /\ Range(InOrder(Heap, root)) = Range(InOrder(PreHeap, pre.root)) \cup {arg}
        /\ Len(InOrder(Heap, root)) = Len(InOrder(PreHeap, pre.root)) + 1
        /\ Increasing(InOrder(Heap, root))
        /\ level[arg] >= 1
        /\ level[arg] = 1 => left[arg] = Nil
        /\ level[arg] > 1 => left[arg] # Nil /\ right[arg] # Nil

\* a fresh insert that left the item at level 2 over two children
C17_Witness ==
    /\ FreshInsert
    /\ ret = Nil
    /\ level[arg] = 2
    /\ left[arg] # Nil
    /\ right[arg] # Nil

\* C18: a delete whose probe's key is not in the tree returns none and
\* leaves the root link and every record's left, right and level as they
\* were, although aat_delete_fixup ran on every node of the search path;
\* on the empty tree it returns none and the tree stays empty.
C18_DeleteAbsentIsNoop ==
    (op = "delete" /\ Matching(PreHeap, pre.root, arg) = {}) =>
        /\ ret = Nil
        /\ Snapshot = pre
        /\ pre.root = Nil => root = Nil

\* a delete of an absent key whose search path ran through a root of level
\* 2 or more and one more node below it
C18_Witness ==
    /\ op = "delete"
    /\ Matching(PreHeap, pre.root, arg) = {}
    /\ ret = Nil
    /\ pre.root # Nil
    /\ pre.level[pre.root] >= 2
    /\ Key(arg) > Key(pre.root)
    /\ pre.right[pre.root] # Nil
    /\ pre.right[pre.right[pre.root]] # Nil

InTree(n) == n \in Reach(Heap, root) /\ level[n] >= 1

Detached(n) == n \notin Reach(Heap, root) /\ Zeroed(Heap, n)

\* the node an operation handed back to the caller as no longer in the tree
Removed ==
    IF op \in {"delete", "delete_first", "delete_last"} /\ ret # Nil
    THEN {ret}
    ELSE IF op = "insert" /\ ret # Nil /\ ret # arg
    THEN {ret}
    ELSE {}

\* C19: starting from zeroed records, after any sequence of operations every
\* record is either in the tree with level >= 1, or not reachable from the
\* root with null left and right and level 0; a node returned by delete,
\* delete_first or delete_last, or returned by insert as the replaced node
\* other than the item, is detached on return.
C19_TwoStates ==
    /\ \A n \in Records : InTree(n) \/ Detached(n)
    /\ \A n \in Records : ~(InTree(n) /\ Detached(n))
    /\ \A n \in Removed : Detached(n)

\* a delete, or an insert replacing a node by another record, that returned
\* an inner node which had two children and is now detached
C19_Witness ==
    /\ Removed # {}
    /\ pre.left[ret] # Nil
    /\ pre.right[ret] # Nil
    /\ pre.level[ret] >= 2
    /\ Detached(ret)
    /\ root # Nil

\* the records of the abstract map in ascending key order, keys from k up
RECURSIVE MapSeqFrom(_)
MapSeqFrom(k) ==
    IF k > NKeys
    THEN <<>>
    ELSE (IF map[k] # Nil THEN <<map[k]>> ELSE <<>>) \o MapSeqFrom(k + 1)

MapSeq == MapSeqFrom(1)

\* the links by which in-tree nodes point at node n
LinksTo(n) ==
    {m \in Reach(Heap, root) : left[m] = n} \cup
    {-m : m \in {x \in Reach(Heap, root) : right[x] = n}}

\* C20: the tree refines the abstract map.  The map is updated beside the
\* tree (insert sets map[key(item)] to item, a delete that returns a node
\* removes that node's entry), and after every operation the in-order
\* traversal is exactly the map's records in ascending key order, by
\* identity; the links form a tree: no link points at the root, exactly one
\* link points at every other in-tree node, and the traversal meets every
\* in-tree node once.
C20_RefinesMap ==
    /\ InOrder(Heap, root) = MapSeq
    /\ \A k \in Keys : map[k] # Nil => Key(map[k]) = k
    /\ Len(InOrder(Heap, root)) = Cardinality(Reach(Heap, root))
    /\ \A n \in Reach(Heap, root) :
          Cardinality(LinksTo(n)) = IF n = root THEN 0 ELSE 1

\* a delete of an inner node with a left subtree, replaced by its in-order
\* predecessor, through a probe that is the second record of that key
C20_Witness ==
    /\ op = "delete" /\ ret # Nil /\ ret # arg
    /\ pre.left[ret] # Nil
    /\ pre.right[ret] # Nil
    /\ map[Key(ret)] = Nil
    /\ Len(MapSeq) >= 4
    /\ Len(InOrder(PreHeap, pre.root)) = Len(MapSeq) + 1

====
